---- MODULE Spec2Model ----
(***************************************************************************)
(* State-machine model of the chisel tunnel core:                          *)
(*   - chserver.Server        (src/server/server.go): authUser, handleWS   *)
(*   - chshare.Tunnel         (src/unnamed/part_000): channel dispatcher   *)
(*   - chshare.Proxy          (src/share/tunnel_in_proxy.go)               *)
(* Every goroutine is cut at its blocking calls (handshake, <-reqs,        *)
(* sshConn.Wait, Accept, Dial, Pipe, OpenChannel) and at its unguarded     *)
(* accesses to shared memory (s.wsCount, p.count).                         *)
(***************************************************************************)
EXTENDS Integers, Sequences, FiniteSets, TLC

\* ------------------------------------------------------------------ bounds
NConns   == 2      \* websocket connections served by one Server
MaxChans == 2      \* channel-open requests sent by all peers together
MaxRules == 2      \* longest rule set (Config.Remotes) a peer sends
MaxSrc   == 2      \* local connections accepted / stdio attempts made by a Proxy
MaxReqs  == 2      \* out-of-band requests a peer sends on one session

Conns == 1..NConns
ChIds == 1..MaxChans

Nil == "nil"

\* ------------------------------------------------------- data of the model
\* The request type handleWS expects of the first request.
ConfigType == "config"

\* A Remote as far as handleWS reads it: RemoteHost and RemotePort.
Rule(h, p) == [RemoteHost |-> h, RemotePort |-> p]
RuleUniverse == {Rule("example.com", "80"), Rule("internal", "22")}

\* The sequences of at most n elements of S that list no element twice.
RECURSIVE SeqsUpTo(_, _)
SeqsUpTo(S, n) ==
    IF n = 0 THEN {<< >>}
    ELSE LET shorter == SeqsUpTo(S, n - 1)
             longest == {t \in shorter : Len(t) = n - 1}
         IN  shorter \cup
             UNION {{Append(s, x) : x \in S \ {s[i] : i \in 1..Len(s)}} : s \in longest}

RuleSets == SeqsUpTo(RuleUniverse, MaxRules)

\* The user tables a Server can be constructed with (NewServer, authfile).
\* The empty table is anonymous mode.  Addrs is the user's allow-list.
NoUsers == << >>
SomeUsers ==
    [n \in {"bob", "ann"} |->
        IF n = "bob"
        THEN [Name |-> "bob", Pass |-> "b0b", Addrs |-> {"example.com:80"}]
        ELSE [Name |-> "ann", Pass |-> "4nn",
              Addrs |-> {"example.com:22"}]]
UserTables == {NoUsers, SomeUsers}

\* What a peer may present to the password callback.
PeerNames  == {"bob", "ann", "eve"}
PeerPasses == {"b0b", "4nn"}

\* The first out-of-band request of a session, as handleWS receives it from
\* `<-reqs`: a request with a type and a payload, or nothing at all when the
\* request stream is closed first (the receive then yields a nil *Request).
BadPayload == [wellformed |-> FALSE, Remotes |-> << >>]
NoRequest == [Type |-> Nil, Payload |-> BadPayload]
Payloads ==
    {[wellformed |-> TRUE, Remotes |-> rs] : rs \in RuleSets}
        \cup {BadPayload}
FirstRequests ==
    {[Type |-> ConfigType, Payload |-> p] : p \in Payloads}
        \cup {[Type |-> "ping", Payload |-> BadPayload]}
        \cup {NoRequest}

\* The purposes (ExtraData) of inbound channel-open requests.
Purposes == {"socks", "udp", "example.com:80"}

VARIABLES
    \* ---- chserver.Server
    Users,          \* s.Users
    sessions,       \* s.sessions : session id -> *User (here: the user's name)
    wsCount,        \* s.wsCount
    fatal,          \* the Go runtime has thrown: the server process is dead
    \* ---- one handleWS call per connection
    pc,             \* position of handleWS / state of the session
    auth,           \* result of the last authUser call of the handshake
    user,           \* local `user`
    req,            \* local `r`, the first request
    reply,          \* what was sent with r.Reply
    sshClosed,      \* sshConn.Close() was called by handleWS
    tmp,            \* the value of s.wsCount read by `s.wsCount++` (0 when dead)
    id,             \* local `id`
    discarding,     \* go ssh.DiscardRequests(reqs) was started
    dispatching,    \* go chshare.ConnectStreams(l, chans) was started
    chans,          \* channel-open requests waiting in `chans`
    \* ---- chshare.Tunnel
    socksServer,    \* t.socksServer != nil
    connStats,      \* t.connStats : [count, open]
    chSess,         \* the session a channel-open request belongs to
    chRemote,       \* ch.ExtraData()
    chPc,           \* position of handleSSHChannel for the channel
    chReject,       \* reason passed to ch.Reject
    chDial,         \* address handleTCP passed to net.Dial
    chStream,       \* state of the accepted stream
    chLog,          \* the closing log line of handleSSHChannel
    reqs,           \* out-of-band requests waiting in the Tunnel's `reqs`
    handled,        \* the requests handleSSHRequests took, with its replies
    \* ---- chshare.Proxy
    remote,         \* p.remote : [Stdio, LocalProto]
    listenErr,      \* what p.listen() returned
    tcp,            \* p.tcp : [bound, open, closes], the listener
    udp,            \* p.udp
    count,          \* p.count
    ctxDone,        \* ctx.Done() is closed
    sshLive,        \* p.ssh() currently returns a connection
    runPc,          \* position of Run
    sidePc,         \* position of the side task of runTCP
    done,           \* number of close(done) executed
    srcPc,          \* position of pipeRemote for each local connection
    srcTmp,         \* the value of p.count read by `p.count++`
    srcCid,         \* local `cid`
    srcClosed,      \* number of src.Close() the current pipeRemote call made
    srcChannel      \* number of channels the current pipeRemote call opened

serverVars == <<Users, sessions, wsCount, fatal, pc, auth, user, req, reply,
                sshClosed, tmp, id, discarding, dispatching, chans>>
tunnelVars == <<socksServer, connStats, chSess, chRemote, chPc, chReject, chDial,
                chStream, chLog>>
proxyVars  == <<remote, listenErr, tcp, udp, count, ctxDone, sshLive, runPc,
                sidePc, done, srcPc, srcTmp, srcCid, srcClosed, srcChannel>>
requestVars == <<reqs, handled>>
vars == <<serverVars, tunnelVars, requestVars, proxyVars>>

\* ------------------------------------------------------------ Go map idiom
len(m) == Cardinality(DOMAIN m)
Lookup(m, k) == IF k \in DOMAIN m THEN m[k] ELSE Nil
Insert(m, k, v) == [x \in DOMAIN m \cup {k} |-> IF x = k THEN v ELSE m[x]]
Delete(m, k) == [x \in DOMAIN m \ {k} |-> m[x]]

\* The transport's session id: distinct for distinct connections.
SessionID(c) == c

\* An error is the sequence of the pieces of its message; nil is no message.
NoError == << >>

\* ------------------------------------------------------- Server.authUser
\* (mutation) the "no auth" shortcut is missing.
authError_always(name, pass) ==
    IF name \notin DOMAIN Users \/ Users[name].Pass # pass
    THEN <<"Invalid auth">>
    ELSE NoError

\* The error authUser returns for a user name and a password.
authError(name, pass) ==
    IF len(Users) = 0 THEN NoError
    ELSE IF name \notin DOMAIN Users \/ Users[name].Pass # pass
         THEN <<"Invalid auth">>
         ELSE NoError

\* The session store after authUser ran for session id sid.
authInsert(sid, name, pass) ==
    IF len(Users) = 0 THEN sessions
    ELSE IF authError(name, pass) # NoError THEN sessions
         ELSE Insert(sessions, sid, name)

\* authUser stores a user for these credentials (s.sessions[sid] = u).
storesUser(name, pass) == len(Users) > 0 /\ authError(name, pass) = NoError

\* s.sessions is a plain map shared by the goroutines of all connections,
\* with no lock.  The accesses another connection's goroutine may be
\* executing at this moment: the insert of its authUser, the lookup of its
\* handleWS (the handshake is done, "load user" is next), and the delete of
\* its handleWS (sshConn.Wait() returns whenever the connection ends).
inserting(d) == auth[d] = "inserting"
lookupPending(d) == len(Users) > 0 /\ pc[d] = "Authenticating" /\ auth[d] = "ok"
deletePending(d) == pc[d] = "Active" /\ user[d] # Nil

\* An access that overlaps a write of another connection, and a write that
\* overlaps any access of another connection, is a data race: the runtime
\* may throw "concurrent map read and map write" or "concurrent map
\* writes", a lookup may also miss a key that is in the map, or the access
\* may go unnoticed.
overlapsWrite(c) == \E d \in Conns \ {c} : inserting(d) \/ deletePending(d)
overlapsAccess(c) ==
    \E d \in Conns \ {c} : inserting(d) \/ deletePending(d) \/ lookupPending(d)
lookupOutcomes(c) == IF overlapsWrite(c) THEN {"ok", "missed", "fatal"} ELSE {"ok"}
writeOutcomes(c) == IF overlapsAccess(c) THEN {"ok", "fatal"} ELSE {"ok"}

\* The password callback of the handshake of connection c, up to and
\* including the start of its insert into s.sessions.
authUser(c, name, pass) ==
    /\ ~fatal
    /\ pc[c] = "Authenticating"
    /\ auth[c] \notin {"ok", "inserting"}
    /\ IF storesUser(name, pass)
       THEN \E o \in writeOutcomes(c) :
              IF o = "fatal"
              THEN /\ fatal' = TRUE
                   /\ UNCHANGED <<sessions, auth>>
              ELSE /\ sessions' = authInsert(SessionID(c), name, pass)
                   /\ auth' = [auth EXCEPT ![c] = "inserting"]
                   /\ UNCHANGED fatal
       ELSE /\ sessions' = authInsert(SessionID(c), name, pass)
            /\ auth' = [auth EXCEPT ![c] =
                    IF authError(name, pass) = NoError THEN "ok" ELSE "invalid"]
            /\ UNCHANGED fatal
    /\ UNCHANGED <<Users, wsCount, pc, user, req, reply, sshClosed, tmp, id,
                   discarding, dispatching, chans>>
    /\ UNCHANGED <<tunnelVars, requestVars, proxyVars>>

\* The insert is complete and authUser returns nil.
authUser_return(c) ==
    /\ ~fatal
    /\ auth[c] = "inserting"
    /\ auth' = [auth EXCEPT ![c] = "ok"]
    /\ UNCHANGED <<Users, fatal, sessions, wsCount, pc, user, req, reply,
                   sshClosed, tmp, id, discarding, dispatching, chans>>
    /\ UNCHANGED <<tunnelVars, requestVars, proxyVars>>

\* -------------------------------------------------------- Server.handleWS
\* User.HasAccess: the address matches one of the user's allowed patterns.
HasAccess(u, addr) == \E pattern \in Users[u].Addrs : pattern = addr

\* chshare.DecodeConfig: the decoded Config, or an error.
DecodeConfig(payload) ==
    [err |-> ~payload.wellformed, c |-> [Remotes |-> payload.Remotes]]

\* addr := r.RemoteHost + ":" + r.RemotePort
RemoteAddr(r) == r.RemoteHost \o ":" \o r.RemotePort

\* s.Errorf("access to '%s' denied", addr)
AccessDenied(addr) == <<"access to '", addr, "' denied">>

\* The loop over c.Remotes from its i-th rule on: the error of the first
\* rule the user has no access to, nil when there is none.
\* (mutation) the loop does not stop at the first rule without access: the
\* error of the last such rule is the one replied.
RECURSIVE checkRemotes_last(_, _, _)
checkRemotes_last(u, remotes, i) ==
    IF i > Len(remotes) THEN NoError
    ELSE IF checkRemotes_last(u, remotes, i + 1) # NoError
         THEN checkRemotes_last(u, remotes, i + 1)
         ELSE IF ~HasAccess(u, RemoteAddr(remotes[i]))
              THEN AccessDenied(RemoteAddr(remotes[i]))
              ELSE NoError

RECURSIVE checkRemotes(_, _, _)
checkRemotes(u, remotes, i) ==
    IF i > Len(remotes) THEN NoError
    ELSE IF ~HasAccess(u, RemoteAddr(remotes[i]))
         THEN AccessDenied(RemoteAddr(remotes[i]))
         ELSE checkRemotes(u, remotes, i + 1)

\* (mutation) the error of DecodeConfig is not looked at.
verifyConfig_undecoded(u, r) ==
    IF r.Type # ConfigType THEN <<"expecting config request">>
    ELSE IF u # Nil THEN checkRemotes(u, DecodeConfig(r.Payload).c.Remotes, 1)
    ELSE NoError

\* "verify configuration": the error handleWS replies with for the first
\* request r of a session of user u (nil: the configuration is accepted).
verifyConfig(u, r) ==
    IF r.Type # ConfigType THEN <<"expecting config request">>
    ELSE IF DecodeConfig(r.Payload).err THEN <<"invalid config">>
    ELSE IF u # Nil THEN checkRemotes(u, DecodeConfig(r.Payload).c.Remotes, 1)
    ELSE NoError

NoReply == [sent |-> FALSE, ok |-> FALSE, payload |-> NoError]
\* reply := func(err error) { r.Reply(err == nil, []byte(err.Error())) ... }
Reply(err) == [sent |-> TRUE, ok |-> (err = NoError), payload |-> err]

\* The reply handleWS sends once the configuration is verified without error.
replyOnSuccess == NoReply

\* The transport's key exchange: from here on the session id exists and the
\* password callback may run.
keyExchange(c) ==
    /\ ~fatal
    /\ pc[c] = "Connecting"
    /\ pc' = [pc EXCEPT ![c] = "Authenticating"]
    /\ UNCHANGED <<Users, fatal, sessions, wsCount, auth, user, req, reply, sshClosed,
                   tmp, id, discarding, dispatching, chans>>
    /\ UNCHANGED <<tunnelVars, requestVars, proxyVars>>

\* ssh.NewServerConn returns an error: handleWS logs and returns.
handleWS_handshakeFailed(c) ==
    /\ ~fatal
    /\ pc[c] \in {"Connecting", "Authenticating"}
    /\ auth[c] # "inserting"
    /\ pc' = [pc EXCEPT ![c] = "Closed"]
    /\ UNCHANGED <<Users, fatal, sessions, wsCount, auth, user, req, reply, sshClosed,
                   tmp, id, discarding, dispatching, chans>>
    /\ UNCHANGED <<tunnelVars, requestVars, proxyVars>>

\* ssh.NewServerConn returns the connection: "load user", then block on <-reqs.
handleWS_loadUser(c) ==
    /\ ~fatal
    /\ pc[c] = "Authenticating"
    /\ auth[c] = "ok"
    /\ IF len(Users) > 0
       THEN \E o \in lookupOutcomes(c) :
              IF o = "fatal"
              THEN /\ fatal' = TRUE
                   /\ UNCHANGED <<user, pc>>
              ELSE /\ user' = [user EXCEPT ![c] =
                          IF o = "missed" THEN Nil
                          ELSE Lookup(sessions, SessionID(c))]
                   /\ pc' = [pc EXCEPT ![c] = "NegotiatingConfig"]
                   /\ UNCHANGED fatal
       ELSE /\ user' = [user EXCEPT ![c] = Nil]
            /\ pc' = [pc EXCEPT ![c] = "NegotiatingConfig"]
            /\ UNCHANGED fatal
    /\ UNCHANGED <<Users, sessions, wsCount, auth, req, reply, sshClosed,
                   tmp, id, discarding, dispatching, chans>>
    /\ UNCHANGED <<tunnelVars, requestVars, proxyVars>>

\* r := <-reqs and the verification of r; on success the read of s.wsCount
\* that starts `s.wsCount++`.
handleWS_config(c, r) ==
    /\ ~fatal
    /\ pc[c] = "NegotiatingConfig"
    /\ req' = [req EXCEPT ![c] = r]
    /\ IF r = NoRequest
       THEN \* r is nil: r.Type dereferences a nil pointer
            /\ pc' = [pc EXCEPT ![c] = "Panicked"]
            /\ UNCHANGED <<reply, sshClosed, tmp>>
       ELSE IF verifyConfig(user[c], r) # NoError
       THEN /\ reply' = [reply EXCEPT ![c] = Reply(verifyConfig(user[c], r))]
            /\ sshClosed' = [sshClosed EXCEPT ![c] = TRUE]
            /\ pc' = [pc EXCEPT ![c] = "Closed"]
            /\ UNCHANGED tmp
       ELSE /\ reply' = [reply EXCEPT ![c] = replyOnSuccess]
            /\ tmp' = [tmp EXCEPT ![c] = wsCount]
            /\ pc' = [pc EXCEPT ![c] = "Accepted"]
            /\ UNCHANGED sshClosed
    /\ UNCHANGED <<Users, fatal, sessions, wsCount, auth, user, id, discarding,
                   dispatching, chans>>
    /\ UNCHANGED <<tunnelVars, requestVars, proxyVars>>

\* The write of `s.wsCount++`; the value read is dead from here on.
handleWS_count(c) ==
    /\ ~fatal
    /\ pc[c] = "Accepted"
    /\ wsCount' = tmp[c] + 1
    /\ tmp' = [tmp EXCEPT ![c] = 0]
    /\ pc' = [pc EXCEPT ![c] = "Counted"]
    /\ UNCHANGED <<Users, fatal, sessions, auth, user, req, reply, sshClosed, id,
                   discarding, dispatching, chans>>
    /\ UNCHANGED <<tunnelVars, requestVars, proxyVars>>

\* id := s.wsCount; go ssh.DiscardRequests(reqs);
\* go chshare.ConnectStreams(l, chans); then block in sshConn.Wait().
handleWS_open(c) ==
    /\ ~fatal
    /\ pc[c] = "Counted"
    /\ id' = [id EXCEPT ![c] = wsCount]
    /\ discarding' = [discarding EXCEPT ![c] = TRUE]
    /\ dispatching' = [dispatching EXCEPT ![c] = TRUE]
    /\ pc' = [pc EXCEPT ![c] = "Active"]
    /\ UNCHANGED <<Users, fatal, sessions, wsCount, auth, user, req, reply, sshClosed,
                   tmp, chans>>
    /\ UNCHANGED <<tunnelVars, requestVars, proxyVars>>

\* The session store after the clean-up at the end of handleWS.
cleanup(c) ==
    IF user[c] # Nil THEN Delete(sessions, SessionID(c)) ELSE sessions

\* sshConn.Wait() returns: the clean-up, and handleWS returns.
handleWS_close(c) ==
    /\ ~fatal
    /\ pc[c] = "Active"
    /\ IF user[c] # Nil
       THEN \E o \in writeOutcomes(c) :
              IF o = "fatal"
              THEN /\ fatal' = TRUE
                   /\ UNCHANGED <<sessions, pc>>
              ELSE /\ sessions' = cleanup(c)
                   /\ pc' = [pc EXCEPT ![c] = "Closed"]
                   /\ UNCHANGED fatal
       ELSE /\ sessions' = cleanup(c)
            /\ pc' = [pc EXCEPT ![c] = "Closed"]
            /\ UNCHANGED fatal
    /\ UNCHANGED <<Users, wsCount, auth, user, req, reply, sshClosed, tmp, id,
                   discarding, dispatching, chans>>
    /\ UNCHANGED <<tunnelVars, requestVars, proxyVars>>

\* ---------------------------------------------------------- chshare.Tunnel
\* The peer of session c sends a channel-open request with purpose p: it
\* waits in `chans` until a dispatcher receives it.
peerOpenChannel(c, k, p) ==
    /\ ~fatal
    /\ pc[c] \in {"NegotiatingConfig", "Accepted", "Counted", "Active"}
    /\ chPc[k] = "unsent"
    /\ \A j \in ChIds : j < k => chPc[j] # "unsent"
    /\ chSess' = [chSess EXCEPT ![k] = c]
    /\ chRemote' = [chRemote EXCEPT ![k] = p]
    /\ chPc' = [chPc EXCEPT ![k] = "queued"]
    /\ chans' = [chans EXCEPT ![c] = Append(@, k)]
    /\ UNCHANGED <<Users, fatal, sessions, wsCount, pc, auth, user, req, reply,
                   sshClosed, tmp, id, discarding, dispatching>>
    /\ UNCHANGED <<socksServer, connStats, chReject, chDial, chStream, chLog>>
    /\ UNCHANGED <<requestVars, proxyVars>>

\* (mutation) the dispatcher is started as soon as the handshake is done.
dispatcherRuns_early(c) == pc[c] \notin {"Connecting", "Authenticating"}

\* The dispatcher of session c is running (started by handleWS).
dispatcherRuns(c) == dispatching[c]

\* (mutation) the loop calls handleSSHChannel itself, without `go`: it takes
\* the next request only when the handler of the previous one has returned.
handleSSHChannels_inline(c) ==
    /\ ~fatal
    /\ dispatcherRuns(c)
    /\ chans[c] # << >>
    /\ \A k \in ChIds : chSess[k] = c =>
            chPc[k] \in {"unsent", "queued", "rejected", "acceptFailed", "done"}
    /\ chPc' = [chPc EXCEPT ![Head(chans[c])] = "spawned"]
    /\ chans' = [chans EXCEPT ![c] = Tail(@)]
    /\ UNCHANGED <<Users, fatal, sessions, wsCount, pc, auth, user, req, reply,
                   sshClosed, tmp, id, discarding, dispatching>>
    /\ UNCHANGED <<socksServer, connStats, chSess, chRemote, chReject, chDial,
                   chStream, chLog>>
    /\ UNCHANGED <<requestVars, proxyVars>>

\* for ch := range chans { go t.handleSSHChannel(ch) }
handleSSHChannels(c) ==
    /\ ~fatal
    /\ dispatcherRuns(c)
    /\ chans[c] # << >>
    /\ chPc' = [chPc EXCEPT ![Head(chans[c])] = "spawned"]
    /\ chans' = [chans EXCEPT ![c] = Tail(@)]
    /\ UNCHANGED <<Users, fatal, sessions, wsCount, pc, auth, user, req, reply,
                   sshClosed, tmp, id, discarding, dispatching>>
    /\ UNCHANGED <<socksServer, connStats, chSess, chRemote, chReject, chDial,
                   chStream, chLog>>
    /\ UNCHANGED <<requestVars, proxyVars>>

\* ConnStats.New, ConnStats.Open, ConnStats.Close: atomic counters.
statsNew(st)   == [st EXCEPT !.count = @ + 1]
statsOpen(st)  == [st EXCEPT !.open = @ + 1]
statsClose(st) == [st EXCEPT !.open = @ - 1]

\* (mutation) the check for a missing SOCKS server is dropped.
socksDenied_never(k) == FALSE

\* socks && t.socksServer == nil
socksDenied(k) == chRemote[k] = "socks" /\ ~socksServer

\* (mutation) every channel that is not "udp" goes to the SOCKS server.
handlerOf_socksDefault(purpose) ==
    IF purpose = "udp" THEN "handleUDP" ELSE "handleSocks"

\* The handler handleSSHChannel hands the accepted stream to.
handlerOf(purpose) ==
    IF purpose = "socks" THEN "handleSocks"
    ELSE IF purpose = "udp" THEN "handleUDP"
    ELSE "handleTCP_dial"

\* handleSSHChannel up to the call of the handler: reject, or Accept, and
\* on an accepted stream connStats.New() and connStats.Open().
\* Accept can only succeed while the transport connection is up.
handleSSHChannel_accept(k, acceptOk) ==
    /\ ~fatal
    /\ chPc[k] = "spawned"
    /\ acceptOk => pc[chSess[k]] = "Active"
    /\ IF socksDenied(k)
       THEN /\ chReject' = [chReject EXCEPT ![k] = "Prohibited"]
            /\ chPc' = [chPc EXCEPT ![k] = "rejected"]
            /\ UNCHANGED <<connStats, chStream>>
       ELSE IF ~acceptOk
       THEN /\ chPc' = [chPc EXCEPT ![k] = "acceptFailed"]
            /\ UNCHANGED <<connStats, chStream, chReject>>
       ELSE /\ chStream' = [chStream EXCEPT ![k] = "open"]
            /\ connStats' = statsOpen(statsNew(connStats))
            /\ chPc' = [chPc EXCEPT ![k] = handlerOf(chRemote[k])]
            /\ UNCHANGED chReject
    /\ UNCHANGED serverVars
    /\ UNCHANGED <<socksServer, chSess, chRemote, chDial, chLog>>
    /\ UNCHANGED <<requestVars, proxyVars>>

\* The errors a handler returns; "" is nil.
NoErr == ""
HandlerErrs == {NoErr, "EOF", "unexpected EOF", "broken pipe"}
DialErrs == {"connection refused"}
\* strings.HasSuffix(err.Error(), "EOF")
HasSuffixEOF(err) == err \in {"EOF", "unexpected EOF"}

\* The closing log line of handleSSHChannel for the handler's error.
closeLog(err) ==
    IF err # NoErr /\ ~HasSuffixEOF(err) THEN "Close (error)" ELSE "Close"

\* (mutation) connStats.Close() is skipped when the handler failed.
statsAfterHandler_okOnly(st, err) == IF err = NoErr THEN statsClose(st) ELSE st

\* The counters after the handler of a channel returned.
statsAfterHandler(st, err) == statsClose(st)

\* handleSSHChannel from the return of the handler on: connStats.Close(),
\* the log line, and the deferred stream.Close().
handlerReturned(k, err) ==
    /\ connStats' = statsAfterHandler(connStats, err)
    /\ chLog' = [chLog EXCEPT ![k] = closeLog(err)]
    /\ chStream' = [chStream EXCEPT ![k] = "closed"]
    /\ chPc' = [chPc EXCEPT ![k] = "done"]

\* handleTCP: net.Dial returns; on an error handleTCP returns it, otherwise
\* it blocks in Pipe.
handleTCP_dial(k, err) ==
    /\ ~fatal
    /\ chPc[k] = "handleTCP_dial"
    /\ chDial' = [chDial EXCEPT ![k] = chRemote[k]]
    /\ IF err # NoErr
       THEN handlerReturned(k, err)
       ELSE /\ chPc' = [chPc EXCEPT ![k] = "handleTCP_pipe"]
            /\ UNCHANGED <<connStats, chLog, chStream>>
    /\ UNCHANGED serverVars
    /\ UNCHANGED <<socksServer, chSess, chRemote, chReject>>
    /\ UNCHANGED <<requestVars, proxyVars>>

\* handleTCP: Pipe returns, handleTCP returns nil.
handleTCP_pipe(k) ==
    /\ ~fatal
    /\ chPc[k] = "handleTCP_pipe"
    /\ handlerReturned(k, NoErr)
    /\ UNCHANGED serverVars
    /\ UNCHANGED <<socksServer, chSess, chRemote, chReject, chDial>>
    /\ UNCHANGED <<requestVars, proxyVars>>

\* handleSocks (socksServer.ServeConn) returns err.
handleSocks(k, err) ==
    /\ ~fatal
    /\ chPc[k] = "handleSocks"
    /\ handlerReturned(k, err)
    /\ UNCHANGED serverVars
    /\ UNCHANGED <<socksServer, chSess, chRemote, chReject, chDial>>
    /\ UNCHANGED <<requestVars, proxyVars>>

\* handleUDP returns err.
handleUDP(k, err) ==
    /\ ~fatal
    /\ chPc[k] = "handleUDP"
    /\ handlerReturned(k, err)
    /\ UNCHANGED serverVars
    /\ UNCHANGED <<socksServer, chSess, chRemote, chReject, chDial>>
    /\ UNCHANGED <<requestVars, proxyVars>>

\* The types of the out-of-band requests a peer sends on an active session.
RequestTypes == {"ping", "keepalive@openssh.com"}

\* The peer of session c sends an out-of-band request of type t.
peerRequest(c, t) ==
    /\ ~fatal
    /\ pc[c] = "Active"
    /\ Len(reqs[c]) + Len(handled[c]) < MaxReqs
    /\ reqs' = [reqs EXCEPT ![c] = Append(@, t)]
    /\ UNCHANGED handled
    /\ UNCHANGED <<serverVars, tunnelVars, proxyVars>>

\* (mutation) the ping is answered with a failure.
requestReply_refused(t) ==
    IF t = "ping" THEN [sent |-> TRUE, ok |-> FALSE, payload |-> NoError]
    ELSE NoReply

\* The switch of handleSSHRequests: r.Reply(true, nil) for a "ping", a debug
\* line and no reply for every other type.
requestReply(t) ==
    IF t = "ping" THEN [sent |-> TRUE, ok |-> TRUE, payload |-> NoError]
    ELSE NoReply

\* for r := range reqs { switch r.Type { ... } }: one iteration.
handleSSHRequests(c) ==
    /\ ~fatal
    /\ reqs[c] # << >>
    /\ handled' = [handled EXCEPT ![c] =
                      Append(@, [Type |-> Head(reqs[c]),
                                 reply |-> requestReply(Head(reqs[c]))])]
    /\ reqs' = [reqs EXCEPT ![c] = Tail(@)]
    /\ UNCHANGED <<serverVars, tunnelVars, proxyVars>>

\* ----------------------------------------------------------- chshare.Proxy
\* Local connections: 0 is the stdio pair, the others are accepted by p.tcp.
Stdio == 0
Srcs == 0..MaxSrc

\* The forwarding rules a Proxy is constructed for.
Remotes ==
    {[Stdio |-> TRUE,  LocalProto |-> "tcp"],
     [Stdio |-> FALSE, LocalProto |-> "tcp"],
     [Stdio |-> FALSE, LocalProto |-> "udp"],
     [Stdio |-> FALSE, LocalProto |-> "sctp"]}

\* What listen can return for the rule: nil, or one of its errors.
listenErrors(r) ==
    IF r.Stdio THEN {NoError}
    ELSE IF r.LocalProto = "tcp" THEN {NoError, <<"resolve: ">>, <<"tcp: ">>}
    ELSE IF r.LocalProto = "udp" THEN {NoError, <<"bind udp">>}
    ELSE {<<"unknown local proto">>}

\* NewProxy: p.listen() binds the local side of the rule.
listen(err) ==
    /\ runPc = "new"
    /\ err \in listenErrors(remote)
    /\ listenErr' = err
    /\ tcp' = IF ~remote.Stdio /\ remote.LocalProto = "tcp" /\ err = NoError
              THEN [tcp EXCEPT !.bound = TRUE, !.open = TRUE] ELSE tcp
    /\ udp' = IF ~remote.Stdio /\ remote.LocalProto = "udp" /\ err = NoError
              THEN TRUE ELSE udp
    /\ runPc' = IF err = NoError THEN "bound" ELSE "failed"
    /\ UNCHANGED <<remote, count, ctxDone, sshLive, sidePc, done, srcPc,
                   srcTmp, srcCid, srcClosed, srcChannel>>
    /\ UNCHANGED <<serverVars, tunnelVars, requestVars>>

\* The context passed to Run is cancelled.
cancel ==
    /\ ~ctxDone
    /\ ctxDone' = TRUE
    /\ UNCHANGED <<remote, listenErr, tcp, udp, count, sshLive, runPc, sidePc,
                   done, srcPc, srcTmp, srcCid, srcClosed, srcChannel>>
    /\ UNCHANGED <<serverVars, tunnelVars, requestVars>>

\* The transport session behind the accessor p.ssh comes up or goes away.
sshToggle ==
    /\ sshLive' = ~sshLive
    /\ UNCHANGED <<remote, listenErr, tcp, udp, count, ctxDone, runPc, sidePc,
                   done, srcPc, srcTmp, srcCid, srcClosed, srcChannel>>
    /\ UNCHANGED <<serverVars, tunnelVars, requestVars>>

\* A call pipeRemote(src) starts: nothing closed or opened by it yet.
callPipeRemote(i) ==
    /\ srcPc' = [srcPc EXCEPT ![i] = "called"]
    /\ srcClosed' = [srcClosed EXCEPT ![i] = 0]
    /\ srcChannel' = [srcChannel EXCEPT ![i] = 0]

\* The rule has none of the local protocols listen and Run know.
unknownProto(r) == ~r.Stdio /\ r.LocalProto \notin {"tcp", "udp"}

\* NewProxy returns the proxy together with the error of listen, so Run can
\* be called on it either way.  A Run after a failed bind is followed for the
\* rules with an unknown protocol, whose Run path touches no listener.
runCallable ==
    \/ runPc = "bound"
    \/ runPc = "failed" /\ unknownProto(remote)

\* Run is called on the proxy: the branch of the rule's protocol.
\*   stdio: runStdio calls pipeRemote(Stdio);
\*   tcp:   runTCP starts its side task and blocks in Accept;
\*   udp:   p.udp.run blocks.
Run ==
    /\ runCallable
    /\ IF remote.Stdio
       THEN /\ runPc' = "runStdio"
            /\ callPipeRemote(Stdio)
            /\ UNCHANGED sidePc
       ELSE IF remote.LocalProto = "tcp"
       THEN /\ runPc' = "runTCP"
            /\ sidePc' = "select"
            /\ UNCHANGED <<srcPc, srcClosed, srcChannel>>
       ELSE IF remote.LocalProto = "udp"
       THEN /\ runPc' = "udp.run"
            /\ UNCHANGED <<sidePc, srcPc, srcClosed, srcChannel>>
       ELSE /\ runPc' = "panicked"
            /\ UNCHANGED <<sidePc, srcPc, srcClosed, srcChannel>>
    /\ UNCHANGED <<remote, listenErr, tcp, udp, count, ctxDone, sshLive, done,
                   srcTmp, srcCid>>
    /\ UNCHANGED <<serverVars, tunnelVars, requestVars>>

\* Where Run continues once runStdio has returned: no return statement
\* follows p.runStdio(ctx), control leaves the if-chain and reaches the panic.
afterRunStdio == "panicked"

\* runStdio after pipeRemote(Stdio) returned: the select on ctx.Done();
\* cancelled: runStdio returns into Run; otherwise the next pipeRemote(Stdio).
runStdio ==
    /\ runPc = "runStdio"
    /\ srcPc[Stdio] \in {"returned_noconn", "returned_openerr", "returned_piped"}
    /\ IF ctxDone
       THEN /\ runPc' = afterRunStdio
            /\ UNCHANGED <<srcPc, srcClosed, srcChannel>>
       ELSE /\ count < MaxSrc
            /\ callPipeRemote(Stdio)
            /\ UNCHANGED runPc
    /\ UNCHANGED <<remote, listenErr, tcp, udp, count, ctxDone, sshLive,
                   sidePc, done, srcTmp, srcCid>>
    /\ UNCHANGED <<serverVars, tunnelVars, requestVars>>

\* p.udp.run(ctx) returns (the context is cancelled) and Run returns its result.
udpRun ==
    /\ runPc = "udp.run"
    /\ ctxDone
    /\ runPc' = "returned"
    /\ UNCHANGED <<remote, listenErr, tcp, udp, count, ctxDone, sshLive,
                   sidePc, done, srcPc, srcTmp, srcCid, srcClosed, srcChannel>>
    /\ UNCHANGED <<serverVars, tunnelVars, requestVars>>

\* runTCP: p.tcp.Accept() returns a connection: go p.pipeRemote(src).
runTCP_accept(i) ==
    /\ runPc = "runTCP"
    /\ tcp.open
    /\ i \in Srcs \ {Stdio}
    /\ srcPc[i] = "none"
    /\ \A j \in Srcs \ {Stdio} : j < i => srcPc[j] # "none"
    /\ callPipeRemote(i)
    /\ UNCHANGED <<remote, listenErr, tcp, udp, count, ctxDone, sshLive,
                   runPc, sidePc, done, srcTmp, srcCid>>
    /\ UNCHANGED <<serverVars, tunnelVars, requestVars>>

\* (mutation) runTCP returns the error of Accept without close(done).
runTCP_acceptError_noDone ==
    /\ runPc = "runTCP"
    /\ runPc' = "returned"
    /\ UNCHANGED <<remote, listenErr, tcp, udp, count, ctxDone, sshLive, done,
                   sidePc, srcPc, srcTmp, srcCid, srcClosed, srcChannel>>
    /\ UNCHANGED <<serverVars, tunnelVars, requestVars>>

\* runTCP: p.tcp.Accept() returns an error (always so on a closed listener):
\* close(done) and return the error.
runTCP_acceptError ==
    /\ runPc = "runTCP"
    /\ done' = done + 1
    /\ runPc' = "returned"
    /\ UNCHANGED <<remote, listenErr, tcp, udp, count, ctxDone, sshLive,
                   sidePc, srcPc, srcTmp, srcCid, srcClosed, srcChannel>>
    /\ UNCHANGED <<serverVars, tunnelVars, requestVars>>

\* p.tcp.Accept() on the listener the side task has closed: it returns an
\* error for certain.
runTCP_closedAccept == tcp.bound /\ ~tcp.open /\ runTCP_acceptError

\* The side task of runTCP takes the case <-ctx.Done(): p.tcp.Close().
sideTask_cancelled ==
    /\ sidePc = "select"
    /\ ctxDone
    /\ tcp' = [tcp EXCEPT !.open = FALSE, !.closes = @ + 1]
    /\ sidePc' = "exited"
    /\ UNCHANGED <<remote, listenErr, udp, count, ctxDone, sshLive, runPc,
                   done, srcPc, srcTmp, srcCid, srcClosed, srcChannel>>
    /\ UNCHANGED <<serverVars, tunnelVars, requestVars>>

\* The side task of runTCP takes the case <-done.
sideTask_done ==
    /\ sidePc = "select"
    /\ done > 0
    /\ sidePc' = "exited"
    /\ UNCHANGED <<remote, listenErr, tcp, udp, count, ctxDone, sshLive,
                   runPc, done, srcPc, srcTmp, srcCid, srcClosed, srcChannel>>
    /\ UNCHANGED <<serverVars, tunnelVars, requestVars>>

\* pipeRemote: the read of p.count that starts `p.count++`.
pipeRemote_load(i) ==
    /\ srcPc[i] = "called"
    /\ srcTmp' = [srcTmp EXCEPT ![i] = count]
    /\ srcPc' = [srcPc EXCEPT ![i] = "count++"]
    /\ UNCHANGED <<remote, listenErr, tcp, udp, count, ctxDone, sshLive,
                   runPc, sidePc, done, srcCid, srcClosed, srcChannel>>
    /\ UNCHANGED <<serverVars, tunnelVars, requestVars>>

\* pipeRemote: the write of `p.count++`.
pipeRemote_store(i) ==
    /\ srcPc[i] = "count++"
    /\ count' = srcTmp[i] + 1
    /\ srcPc' = [srcPc EXCEPT ![i] = "cid"]
    /\ UNCHANGED <<remote, listenErr, tcp, udp, ctxDone, sshLive, runPc,
                   sidePc, done, srcTmp, srcCid, srcClosed, srcChannel>>
    /\ UNCHANGED <<serverVars, tunnelVars, requestVars>>

\* (mutation) the nil check on the connection is missing.
afterAccessor_unchecked(live) == "OpenChannel"

\* The position pipeRemote is at after `sshConn := p.ssh()`.
afterAccessor(live) == IF live THEN "OpenChannel" ELSE "returned_noconn"

\* pipeRemote: cid := p.count; sshConn := p.ssh(); without a connection it
\* returns (the deferred src.Close() runs), otherwise it calls OpenChannel.
pipeRemote_ssh(i) ==
    /\ srcPc[i] = "cid"
    /\ srcCid' = [srcCid EXCEPT ![i] = count]
    /\ srcPc' = [srcPc EXCEPT ![i] = afterAccessor(sshLive)]
    /\ srcClosed' = [srcClosed EXCEPT ![i] =
                        IF afterAccessor(sshLive) = "OpenChannel" THEN @
                        ELSE @ + 1]
    /\ UNCHANGED <<remote, listenErr, tcp, udp, count, ctxDone, sshLive,
                   runPc, sidePc, done, srcTmp, srcChannel>>
    /\ UNCHANGED <<serverVars, tunnelVars, requestVars>>

\* pipeRemote: sshConn.OpenChannel returns; an error: log and return;
\* a channel: go ssh.DiscardRequests(reqs) and block in Pipe(src, dst).
pipeRemote_OpenChannel(i, ok) ==
    /\ srcPc[i] = "OpenChannel"
    /\ IF ok
       THEN /\ srcChannel' = [srcChannel EXCEPT ![i] = @ + 1]
            /\ srcPc' = [srcPc EXCEPT ![i] = "Pipe"]
            /\ UNCHANGED srcClosed
       ELSE /\ srcPc' = [srcPc EXCEPT ![i] = "returned_openerr"]
            /\ srcClosed' = [srcClosed EXCEPT ![i] = @ + 1]
            /\ UNCHANGED srcChannel
    /\ UNCHANGED <<remote, listenErr, tcp, udp, count, ctxDone, sshLive,
                   runPc, sidePc, done, srcTmp, srcCid>>
    /\ UNCHANGED <<serverVars, tunnelVars, requestVars>>

\* pipeRemote: Pipe returns; log the byte counts and return.
pipeRemote_Pipe(i) ==
    /\ srcPc[i] = "Pipe"
    /\ srcPc' = [srcPc EXCEPT ![i] = "returned_piped"]
    /\ srcClosed' = [srcClosed EXCEPT ![i] = @ + 1]
    /\ UNCHANGED <<remote, listenErr, tcp, udp, count, ctxDone, sshLive,
                   runPc, sidePc, done, srcTmp, srcCid, srcChannel>>
    /\ UNCHANGED <<serverVars, tunnelVars, requestVars>>

\* ------------------------------------------------------- specifications
\* NewServer: no session yet, every connection about to start its handshake.
ServerInit ==
    /\ sessions = << >>
    /\ fatal = FALSE
    /\ wsCount = 0
    /\ pc = [c \in Conns |-> "Connecting"]
    /\ auth = [c \in Conns |-> "none"]
    /\ user = [c \in Conns |-> Nil]
    /\ req = [c \in Conns |-> NoRequest]
    /\ reply = [c \in Conns |-> NoReply]
    /\ sshClosed = [c \in Conns |-> FALSE]
    /\ tmp = [c \in Conns |-> 0]
    /\ id = [c \in Conns |-> 0]
    /\ discarding = [c \in Conns |-> FALSE]
    /\ dispatching = [c \in Conns |-> FALSE]
    /\ chans = [c \in Conns |-> << >>]

TunnelInit ==
    /\ connStats = [count |-> 0, open |-> 0]
    /\ chSess = [k \in ChIds |-> 0]
    /\ chRemote = [k \in ChIds |-> ""]
    /\ chPc = [k \in ChIds |-> "unsent"]
    /\ chReject = [k \in ChIds |-> ""]
    /\ chDial = [k \in ChIds |-> ""]
    /\ chStream = [k \in ChIds |-> "none"]
    /\ chLog = [k \in ChIds |-> ""]
    /\ reqs = [c \in Conns |-> << >>]
    /\ handled = [c \in Conns |-> << >>]

\* The Proxy struct as NewProxy fills it, before p.listen().
ProxyInit ==
    /\ listenErr = NoError
    /\ tcp = [bound |-> FALSE, open |-> FALSE, closes |-> 0]
    /\ udp = FALSE
    /\ count = 0
    /\ ctxDone = FALSE
    /\ runPc = "new"
    /\ sidePc = "none"
    /\ done = 0
    /\ srcPc = [i \in Srcs |-> "none"]
    /\ srcTmp = [i \in Srcs |-> 0]
    /\ srcCid = [i \in Srcs |-> 0]
    /\ srcClosed = [i \in Srcs |-> 0]
    /\ srcChannel = [i \in Srcs |-> 0]

\* A Proxy that is constructed and not used.
ProxyUnused ==
    /\ remote = [Stdio |-> FALSE, LocalProto |-> "tcp"]
    /\ sshLive = FALSE
    /\ ProxyInit

\* --- Spec: the session coordinator (authUser and handleWS of every
\* connection, all interleavings), no channel-open request sent.
Init ==
    /\ Users \in UserTables
    /\ socksServer \in BOOLEAN
    /\ ServerInit /\ TunnelInit
    /\ ProxyUnused

Next ==
    \/ \E c \in Conns : keyExchange(c)
    \/ \E c \in Conns, name \in PeerNames, pass \in PeerPasses : authUser(c, name, pass)
    \/ \E c \in Conns : authUser_return(c)
    \/ \E c \in Conns : handleWS_handshakeFailed(c)
    \/ \E c \in Conns : handleWS_loadUser(c)
    \/ \E c \in Conns, r \in FirstRequests : handleWS_config(c, r)
    \/ \E c \in Conns : handleWS_count(c)
    \/ \E c \in Conns : handleWS_open(c)
    \/ \E c \in Conns : handleWS_close(c)

Spec == Init /\ [][Next]_vars

\* --- DispatchSpec: the session coordinator together with the channel-open
\* requests the peers send from the end of the handshake on, up to the
\* Accept of each channel.  The peers choose among three first requests.
DispatchRequests ==
    {[Type |-> ConfigType,
      Payload |-> [wellformed |-> TRUE, Remotes |-> <<Rule("example.com", "80")>>]],
     [Type |-> ConfigType, Payload |-> BadPayload],
     [Type |-> "ping", Payload |-> BadPayload]}

DispatchInit ==
    /\ Users \in UserTables
    /\ socksServer = FALSE
    /\ ServerInit /\ TunnelInit
    /\ ProxyUnused

DispatchNext ==
    \/ \E c \in Conns : keyExchange(c)
    \/ \E c \in Conns, name \in PeerNames, pass \in PeerPasses : authUser(c, name, pass)
    \/ \E c \in Conns : authUser_return(c)
    \/ \E c \in Conns : handleWS_handshakeFailed(c)
    \/ \E c \in Conns : handleWS_loadUser(c)
    \/ \E c \in Conns, r \in DispatchRequests : handleWS_config(c, r)
    \/ \E c \in Conns : handleWS_count(c)
    \/ \E c \in Conns : handleWS_open(c)
    \/ \E c \in Conns : handleWS_close(c)
    \/ \E c \in Conns, k \in ChIds : peerOpenChannel(c, k, "example.com:80")
    \/ \E c \in Conns : handleSSHChannels(c)
    \/ \E k \in ChIds, ok \in BOOLEAN : handleSSHChannel_accept(k, ok)

DispatchSpec == DispatchInit /\ [][DispatchNext]_vars

\* --- TunnelSpec: the channel dispatcher on sessions that are Active: every
\* connection has negotiated the empty rule set in anonymous mode, in the
\* order of the connection numbers.
TunnelStart ==
    /\ Users = NoUsers
    /\ socksServer \in BOOLEAN
    /\ sessions = << >>
    /\ fatal = FALSE
    /\ wsCount = NConns
    /\ pc = [c \in Conns |-> "Active"]
    /\ auth = [c \in Conns |-> "ok"]
    /\ user = [c \in Conns |-> Nil]
    /\ req = [c \in Conns |->
                [Type |-> ConfigType,
                 Payload |-> [wellformed |-> TRUE, Remotes |-> << >>]]]
    /\ reply = [c \in Conns |-> replyOnSuccess]
    /\ sshClosed = [c \in Conns |-> FALSE]
    /\ tmp = [c \in Conns |-> 0]
    /\ id = [c \in Conns |-> c]
    /\ discarding = [c \in Conns |-> TRUE]
    /\ dispatching = [c \in Conns |-> TRUE]
    /\ chans = [c \in Conns |-> << >>]
    /\ TunnelInit
    /\ ProxyUnused

TunnelNext ==
    \/ \E c \in Conns : handleWS_close(c)
    \/ \E c \in Conns, k \in ChIds, p \in Purposes : peerOpenChannel(c, k, p)
    \/ \E c \in Conns : handleSSHChannels(c)
    \/ \E k \in ChIds, ok \in BOOLEAN : handleSSHChannel_accept(k, ok)
    \/ \E k \in ChIds, err \in DialErrs \cup {NoErr} : handleTCP_dial(k, err)
    \/ \E k \in ChIds : handleTCP_pipe(k)
    \/ \E k \in ChIds, err \in HandlerErrs : handleSocks(k, err)
    \/ \E k \in ChIds, err \in HandlerErrs : handleUDP(k, err)

TunnelSpec == TunnelStart /\ [][TunnelNext]_vars

\* --- RequestSpec: the out-of-band requests of sessions that are Active.
RequestNext ==
    \/ \E c \in Conns : handleWS_close(c)
    \/ \E c \in Conns, t \in RequestTypes : peerRequest(c, t)
    \/ \E c \in Conns : handleSSHRequests(c)

RequestSpec == TunnelStart /\ [][RequestNext]_vars

\* One Proxy, for each kind of forwarding rule, with its pipeRemote calls.
ProxyInitAll ==
    /\ Users = NoUsers
    /\ socksServer = FALSE
    /\ ServerInit /\ TunnelInit
    /\ remote \in Remotes
    /\ sshLive \in BOOLEAN
    /\ ProxyInit

ProxyNext ==
    \/ \E err \in listenErrors(remote) : listen(err)
    \/ cancel
    \/ sshToggle
    \/ Run
    \/ runStdio
    \/ udpRun
    \/ \E i \in Srcs : runTCP_accept(i)
    \/ runTCP_acceptError
    \/ sideTask_cancelled
    \/ sideTask_done
    \/ \E i \in Srcs : pipeRemote_load(i)
    \/ \E i \in Srcs : pipeRemote_store(i)
    \/ \E i \in Srcs : pipeRemote_ssh(i)
    \/ \E i \in Srcs, ok \in BOOLEAN : pipeRemote_OpenChannel(i, ok)
    \/ \E i \in Srcs : pipeRemote_Pipe(i)

ProxySpec == ProxyInitAll /\ [][ProxyNext]_vars

\* The scheduling the Go runtime guarantees to the Proxy: the side task of
\* runTCP runs once one of its select cases is ready, and an Accept blocked
\* on a listener that gets closed returns.  Nothing makes the caller call
\* Run or cancel, the peer answer, or Accept fail on an open listener.
ProxyFairSpec ==
    /\ ProxySpec
    /\ WF_vars(sideTask_cancelled)
    /\ WF_vars(sideTask_done)
    /\ WF_vars(runTCP_closedAccept)

\* --- ForwardSpec: the two loops that start forwarding tasks, each in its
\* own behaviours: the channel dispatchers of the Active sessions, or one
\* Proxy.  The two share no variable, so their interleavings add nothing.
noSession == \A c \in Conns : pc[c] = "Connecting"

ForwardInit == TunnelStart \/ ProxyInitAll

ForwardNext ==
    \/ ~noSession /\ TunnelNext
    \/ noSession /\ ProxyNext

ForwardSpec == ForwardInit /\ [][ForwardNext]_vars

\* ------------------------------------------------------------------ claims
\* The remote address of a rule, and whether a user's allow-list accepts it.
AddrOf(rule) == rule.RemoteHost \o ":" \o rule.RemotePort
Accepts(u, rule) == AddrOf(rule) \in Users[u].Addrs
\* The rules of a rule set the user's allow-list does not accept.
DeniedRules(u, rs) == {i \in 1..Len(rs) : ~Accepts(u, rs[i])}
Min(S) == CHOOSE x \in S : \A y \in S : x <= y
\* handleWS received a first request that is a config request and decodes.
GotConfig(c) ==
    /\ pc[c] \in {"Accepted", "Counted", "Active", "Closed"}
    /\ req[c].Type = ConfigType
    /\ req[c].Payload.wellformed
\* An error reply was sent on the first request and the connection closed.
Rejected(c) ==
    /\ reply[c].sent /\ ~reply[c].ok /\ reply[c].payload # << >>
    /\ sshClosed[c]
    /\ pc[c] = "Closed"
    /\ ~dispatching[c] /\ ~discarding[c]
Mentions(msg, addr) == \E n \in 1..Len(msg) : msg[n] = addr

\* C1: for a session of an authenticated user whose first request is a
\* decodable config request, the session goes on towards Active exactly when
\* the allow-list accepts every rule; otherwise it is rejected, the message
\* contains the address of the first rule (in rule-set order) that is not
\* accepted and of no other rule's address, and the connection is closed.
C1_AccessCheck ==
    \A c \in Conns :
        (user[c] # Nil /\ GotConfig(c)) =>
            LET rs == req[c].Payload.Remotes
                denied == DeniedRules(user[c], rs)
            IN  /\ dispatching[c] => denied = {}
                /\ denied = {} => ~Rejected(c) /\ ~sshClosed[c]
                /\ denied # {} =>
                      /\ Rejected(c)
                      /\ Mentions(reply[c].payload, AddrOf(rs[Min(denied)]))
                      /\ \A i \in denied :
                            Mentions(reply[c].payload, AddrOf(rs[i]))
                                => AddrOf(rs[i]) = AddrOf(rs[Min(denied)])

\* bob (allow-list example.com:80) asked for example.com:80 and internal:22
\* and was rejected; ann's session with two different denied rules was too;
\* and a session with only accepted rules became Active.
C1_Witness ==
    /\ \E c \in Conns :
          /\ user[c] = "ann" /\ GotConfig(c)
          /\ req[c].Payload.Remotes = <<Rule("internal", "22"), Rule("example.com", "80")>>
          /\ Rejected(c)
    /\ \E c \in Conns :
          /\ user[c] = "bob" /\ GotConfig(c)
          /\ req[c].Payload.Remotes = <<Rule("example.com", "80")>>
          /\ pc[c] = "Active"

\* C2: once the configuration is verified and the session goes Active (its
\* discard task or its dispatcher is started), an accept reply (ok = true)
\* has been sent on the config request.
C2_AcceptReplied ==
    \A c \in Conns :
        (pc[c] = "Active" \/ discarding[c] \/ dispatching[c])
            => reply[c].sent /\ reply[c].ok

\* C3: the record authUser inserted for a session is gone from the session
\* store once handleWS has returned for that session.
C3_RecordRemoved ==
    \A c \in Conns : pc[c] = "Closed" => SessionID(c) \notin DOMAIN sessions

\* C4: a first request that is not of type "config", or whose payload does
\* not decode, gets an error reply (ok = false, with a message), the
\* connection is closed and the session is never Active.
C4_ConfigError ==
    \A c \in Conns :
        (req[c] # NoRequest /\ (req[c].Type # ConfigType \/ ~req[c].Payload.wellformed))
            => Rejected(c)

C4_Witness ==
    /\ \E c \in Conns : req[c].Type = "ping" /\ Rejected(c)
    /\ \E c \in Conns :
          req[c].Type = ConfigType /\ ~req[c].Payload.wellformed /\ Rejected(c)

\* The channel's handler was started for the channel-open request k.
Dispatched(k) == chPc[k] \notin {"unsent", "queued"}
\* The negotiation of session c completed successfully.
NegotiatedOk(c) ==
    /\ pc[c] \in {"Active", "Closed"}
    /\ req[c].Type = ConfigType /\ req[c].Payload.wellformed
    /\ user[c] # Nil => DeniedRules(user[c], req[c].Payload.Remotes) = {}
    /\ ~sshClosed[c]

\* C5: a channel is dispatched only in a session whose negotiation has
\* completed successfully; in a rejected session none ever is.
C5_NoDispatchBeforeConfig ==
    \A k \in ChIds :
        /\ Dispatched(k) => NegotiatedOk(chSess[k])
        /\ (chSess[k] \in Conns /\ Rejected(chSess[k])) => ~Dispatched(k)

\* One channel-open request waits for ever in a rejected session while one of
\* an Active session has been accepted.
C5_Witness ==
    \E k1, k2 \in ChIds :
        /\ chPc[k1] = "queued" /\ Rejected(chSess[k1])
        /\ chPc[k2] = "handleTCP_dial" /\ pc[chSess[k2]] = "Active"

\* C6: without a user table authUser refuses nobody and records nothing, no
\* session has a user, and no well-formed config request is rejected.
C6_Anonymous ==
    len(Users) = 0 =>
        /\ DOMAIN sessions = {}
        /\ \A c \in Conns :
              /\ auth[c] # "invalid"
              /\ user[c] = Nil
              /\ GotConfig(c) => ~Rejected(c) /\ ~sshClosed[c]
                                   /\ (pc[c] = "Closed" => dispatching[c])

C6_Witness ==
    /\ len(Users) = 0
    /\ \E c \in Conns :
          /\ auth[c] = "ok" /\ pc[c] = "Active"
          /\ req[c].Payload.Remotes = <<Rule("internal", "22"), Rule("example.com", "80")>>

\* The channels whose handler is in progress, and those that were accepted.
HandlerStates == {"handleSocks", "handleUDP", "handleTCP_dial", "handleTCP_pipe"}
InHandler == {k \in ChIds : chPc[k] \in HandlerStates}
Accepted == {k \in ChIds : chPc[k] \in HandlerStates \cup {"done"}}

\* C7: the open counter is the number of channels whose handler is in
\* progress (so never negative, and zero when no handler runs), and the total
\* counter is the number of accepted channels: rejected channels and failed
\* Accepts count nowhere.
C7_Counters ==
    /\ connStats.open = Cardinality(InHandler)
    /\ connStats.open >= 0
    /\ connStats.count = Cardinality(Accepted)

\* One channel's handler has returned with an error that is not an EOF,
\* another channel was rejected or failed in Accept, and no handler runs.
C7_Witness ==
    /\ \E k \in ChIds : chPc[k] = "done" /\ chLog[k] = "Close (error)"
    /\ \E k \in ChIds : chPc[k] \in {"rejected", "acceptFailed"}
    /\ connStats.open = 0

\* C8: the step that handles a "socks" channel-open request on a dispatcher
\* without SOCKS server rejects it with the Prohibited reason, accepts no
\* stream, and changes nothing of the session, of its dispatcher or of any
\* other channel; a rejected channel stays rejected.
C8_SocksProhibited ==
    [][\A k \in ChIds :
          /\ (chPc[k] = "spawned" /\ chRemote[k] = "socks" /\ ~socksServer
                /\ chPc'[k] # "spawned")
                => /\ chPc'[k] = "rejected"
                   /\ chReject'[k] = "Prohibited"
                   /\ chStream'[k] = "none"
                   /\ connStats' = connStats
                   /\ pc' = pc /\ dispatching' = dispatching /\ chans' = chans
                   /\ sshClosed' = sshClosed
                   /\ \A j \in ChIds \ {k} : chPc'[j] = chPc[j]
          /\ chPc[k] = "rejected" => chPc'[k] = "rejected" /\ chStream'[k] = "none"
      ]_vars

\* A socks request was rejected and a later request of the same session was
\* accepted and handled.
C8_Witness ==
    \E k1, k2 \in ChIds :
        /\ k1 < k2 /\ chSess[k1] = chSess[k2]
        /\ chPc[k1] = "rejected" /\ chReject[k1] = "Prohibited"
        /\ chPc[k2] = "done"

Returned == {"returned_noconn", "returned_openerr", "returned_piped"}

\* C9: the step of pipeRemote that finds no live connection returns at once,
\* with no channel opened and the local connection closed; and whenever a
\* pipeRemote call has returned, it has closed its local connection.
C9_PipeRemoteCloses ==
    [][\A i \in Srcs :
          /\ (srcPc[i] = "cid" /\ srcPc'[i] # "cid" /\ ~sshLive)
                => /\ srcPc'[i] = "returned_noconn"
                   /\ srcChannel'[i] = 0
                   /\ srcClosed'[i] = 1
          /\ srcPc'[i] \in Returned => srcClosed'[i] = 1
          /\ srcPc'[i] = "returned_noconn" => srcChannel'[i] = 0
      ]_vars

C9_Witness ==
    \E i, j \in Srcs :
        /\ srcPc[i] = "returned_noconn" /\ srcClosed[i] = 1
        /\ srcPc[j] \in {"returned_openerr", "returned_piped"} /\ srcClosed[j] = 1

\* C10: for a stdio rule, a Run that has ended has returned to its caller.
C10_StdioRunReturns ==
    (remote.Stdio /\ runPc \notin {"new", "bound", "runStdio"}) => runPc = "returned"

\* The accept loop of a tcp rule.
IsTCP == ~remote.Stdio /\ remote.LocalProto = "tcp"
Accepting == IsTCP /\ runPc = "runTCP"

\* C11: once the context is cancelled while the accept loop runs, the side
\* task eventually closes the listener and runTCP returns.
C11_CancelClosesListener ==
    (Accepting /\ ctxDone) ~> (tcp.closes > 0 /\ runPc = "returned")

\* C16: for a rule whose local protocol is neither stdio, tcp nor udp,
\* listen reports an error and Run, if called, ends by returning an error:
\* it never panics.
C16_NoPanicOnUnknownProto ==
    unknownProto(remote) =>
        /\ runPc # "panicked"
        /\ runPc # "new" => listenErr # NoError

\* C19: for a tcp rule, whenever runTCP has returned done is closed exactly
\* once, the side task closes the listener at most once, and the side task
\* eventually exits.
C19_SideTaskTerminates ==
    /\ [](IsTCP /\ runPc = "returned" => done = 1)
    /\ [](done <= 1 /\ tcp.closes <= 1)
    /\ [](IsTCP /\ sidePc = "exited" => ctxDone \/ done = 1)
    /\ (IsTCP /\ runPc = "returned") ~> (sidePc = "exited")

\* Accept failed although nothing was cancelled: runTCP has returned and the
\* side task has left through done without closing the listener.
C19_Witness ==
    /\ IsTCP /\ ~ctxDone /\ runPc = "returned"
    /\ sidePc = "exited" /\ done = 1 /\ tcp.closes = 0

\* C12: every "ping" handleSSHRequests has taken was answered with success
\* and an empty payload, whatever was handled before it; a request of another
\* type was not answered.
C12_PingAnswered ==
    \A c \in Conns : \A n \in 1..Len(handled[c]) :
        IF handled[c][n].Type = "ping"
        THEN /\ handled[c][n].reply.sent /\ handled[c][n].reply.ok
             /\ handled[c][n].reply.payload = << >>
        ELSE ~handled[c][n].reply.sent

\* A ping was answered right after a request of unknown type.
C12_Witness ==
    \E c \in Conns :
        /\ Len(handled[c]) = 2
        /\ handled[c][1].Type # "ping" /\ ~handled[c][1].reply.sent
        /\ handled[c][2].Type = "ping" /\ handled[c][2].reply.ok

\* C14: a channel whose purpose is neither "socks" nor "udp" is never
\* rejected; once its Accept succeeded its stream is open and handleTCP dials
\* the purpose string; the step in which the dial fails closes the stream,
\* decrements the open counter and leaves the session, its dispatcher and
\* every other channel as they were.
C14_DialFailure ==
    [][\A k \in ChIds : chRemote[k] \notin {"socks", "udp"} =>
          /\ (chPc[k] = "spawned" /\ chPc'[k] # "spawned")
                => \/ chPc'[k] = "acceptFailed" /\ chStream'[k] = "none"
                   \/ chPc'[k] = "handleTCP_dial" /\ chStream'[k] = "open"
          /\ (chPc[k] = "handleTCP_dial" /\ chPc'[k] # "handleTCP_dial")
                => /\ chDial'[k] = chRemote[k]
                   /\ chPc'[k] \in {"handleTCP_pipe", "done"}
          /\ (chPc[k] = "handleTCP_dial" /\ chPc'[k] = "done")
                => /\ chStream'[k] = "closed"
                   /\ chLog'[k] = "Close (error)"
                   /\ connStats'.open = connStats.open - 1
                   /\ connStats'.count = connStats.count
                   /\ pc' = pc /\ dispatching' = dispatching /\ chans' = chans
                   /\ sshClosed' = sshClosed
                   /\ \A j \in ChIds \ {k} :
                        /\ chPc'[j] = chPc[j] /\ chStream'[j] = chStream[j]
                        /\ chLog'[j] = chLog[j] /\ chDial'[j] = chDial[j]]_vars

\* The dial of one channel has failed, and another channel of the same
\* session is forwarding on its open stream.
C14_Witness ==
    \E k, j \in ChIds :
        /\ k # j /\ chSess[k] = chSess[j]
        /\ chPc[k] = "done" /\ chDial[k] = "example.com:80"
        /\ dispatching[chSess[k]]
        /\ chStream[k] = "closed" /\ chLog[k] = "Close (error)"
        /\ chPc[j] = "handleTCP_pipe" /\ chStream[j] = "open"
        /\ connStats.open = 1 /\ connStats.count = 2

\* C15: the loops do not wait for the tasks they started.  Whatever the
\* handlers of earlier channels are doing, the channel loop of a running
\* dispatcher can take a pending channel-open request; whatever the
\* pipeRemote calls of earlier connections are doing, the accept loop of
\* runTCP can take the next connection while the listener is open.
C15_LoopsNeverBlocked ==
    /\ \A c \in Conns :
          (dispatching[c] /\ chans[c] # << >>) => ENABLED handleSSHChannels(c)
    /\ (runPc = "runTCP" /\ tcp.open /\ \E i \in Srcs \ {Stdio} : srcPc[i] = "none")
          => ENABLED (\E i \in Srcs : runTCP_accept(i))

\* A channel-open request is pending while the handler of an earlier channel
\* of the same session is blocked in Pipe.
C15_StalledChannel ==
    \E k, j \in ChIds :
        /\ chPc[k] = "handleTCP_pipe" /\ chPc[j] = "queued"
        /\ chSess[k] = chSess[j] /\ dispatching[chSess[k]]

\* The accept loop runs while the pipeRemote of an earlier connection is
\* blocked in Pipe.
C15_StalledConn ==
    /\ runPc = "runTCP" /\ tcp.open
    /\ \E i, j \in Srcs \ {Stdio} : srcPc[i] = "Pipe" /\ srcPc[j] = "none"

C15_Witness == C15_StalledChannel \/ C15_StalledConn

\* C17: a session whose request stream ended before a first request (the
\* receive of handleWS yielded no request) is Closed once handleWS is past
\* the receive: handleWS did not fail on the missing request.
C17_NoRequestEndsClosed ==
    \A c \in Conns :
        (req[c] = NoRequest
            /\ pc[c] \notin {"Connecting", "Authenticating", "NegotiatingConfig"})
            => pc[c] = "Closed"

\* The sessions that have reached Active, and those whose `s.wsCount++` is
\* complete.
ReachedActive == {c \in Conns : dispatching[c]}
Incremented == {c \in Conns : pc[c] = "Counted" \/ dispatching[c]}

\* C20: two sessions that have reached Active have different session
\* numbers, and wsCount is the number of sessions that have completed the
\* increment (so the number of sessions that reached Active, once none is
\* between the increment and Active).
C20_UniqueIds ==
    /\ \A c, d \in ReachedActive : c # d => id[c] # id[d]
    /\ wsCount = Cardinality(Incremented)

\* The steps in which handleWS of connection c reads s.sessions[sid] and in
\* which it deletes from s.sessions.
MapLookup(c) ==
    /\ len(Users) > 0
    /\ pc[c] = "Authenticating" /\ pc'[c] = "NegotiatingConfig"
MapDelete(c) ==
    /\ user[c] # Nil
    /\ pc[c] = "Active" /\ pc'[c] = "Closed"

\* C13: handleWS of one connection looks up or deletes in the session store
\* only while no authUser of another connection is inserting into it, and
\* the runtime never reports a concurrent map access.
C13_NoConcurrentAccess ==
    /\ [][\A c \in Conns :
            (MapLookup(c) \/ MapDelete(c))
                => \A d \in Conns \ {c} : auth[d] # "inserting"]_vars
    /\ [](~fatal)

\* C18: with a user table, a session that has reached Active has a user: its
\* lookup found the record authUser inserted, so its rules went through the
\* allow-list check.
C18_UserLoaded ==
    len(Users) > 0 => \A c \in Conns : dispatching[c] => user[c] # Nil

====
